---- MODULE Spec2Model ----
(***************************************************************************)
(* file_organizer (src/main.rs): `scan <folder>` and                       *)
(* `organize <folder> [--dry-run]` over one directory D.                   *)
(*                                                                         *)
(* A string is a sequence of one-character strings; a path is a sequence   *)
(* of components relative to D (<<>> is D itself); the filesystem is a     *)
(* function from the existing paths to nodes [kind, content].              *)
(***************************************************************************)
EXTENDS Integers, Sequences, FiniteSets, TLC

(***************************************************************************)
(* Bounds of the explored inputs                                           *)
(***************************************************************************)
\* at most this many entries at the top level of D in the initial state
MaxEntries == 3
\* at most this many entries already present below D/organized initially
MaxPre == 1

(***************************************************************************)
(* Strings                                                                 *)
(***************************************************************************)
ORGANIZED == <<"o", "r", "g", "a", "n", "i", "z", "e", "d">>
NO_EXT == <<"n", "o", "_", "e", "x", "t">>
SCAN_NO_EXT == <<"(", "n", "o", "_", "e", "x", "t", ")">>

\* the file names the initial directory draws its entries from:
\* a.t  b.T  c  .g  a.  organized
Names ==
    { <<"a", ".", "t">>, <<"b", ".", "T">>, <<"c">>, <<".", "g">>,
      <<"a", ".">>, ORGANIZED }

Kinds == {"file", "dir", "other"}

\* char::to_lowercase on the characters in use
LowerChar(c) ==
    CASE c = "A" -> "a"
      [] c = "B" -> "b"
      [] c = "T" -> "t"
      [] OTHER -> c

\* str::to_lowercase
ToLowercase(s) == [i \in 1..Len(s) |-> LowerChar(s[i])]

\* position of the last "." of a name, 0 when there is none
LastDot(s) ==
    LET dots == {i \in 1..Len(s) : s[i] = "."}
    IN  IF dots = {} THEN 0 ELSE CHOOSE i \in dots : \A j \in dots : j <= i

None == [some |-> FALSE, val |-> <<>>]
Some(v) == [some |-> TRUE, val |-> v]

\* Path::extension of a path whose last component is `name`: None without a
\* dot, None when the only dot leads the name, else the text after the last dot
Extension(name) ==
    LET d == LastDot(name)
    IN  IF name = <<".", ".">> \/ d = 0 \/ d = 1
        THEN None
        ELSE Some(SubSeq(name, d + 1, Len(name)))

\* characters that stand for bytes that are no valid UTF-8
InvalidBytes == {"\\xFF"}

\* OsStr::to_str: None unless the text is valid Unicode
ToStr(opt) ==
    IF opt.some /\ \A i \in 1..Len(opt.val) : opt.val[i] \notin InvalidBytes
    THEN opt
    ELSE None

\* Option::map(|s| s.to_lowercase())
MapLower(opt) == IF opt.some THEN Some(ToLowercase(opt.val)) ELSE None

UnwrapOr(opt, dflt) == IF opt.some THEN opt.val ELSE dflt

\* a bug: the key keeps the extension's letter case
ScanExtKeepsCase(name) == UnwrapOr(ToStr(Extension(name)), SCAN_NO_EXT)

\* the by_extension key of scan_folder
ScanExt(name) == UnwrapOr(MapLower(ToStr(Extension(name))), SCAN_NO_EXT)

\* a bug: the subfolder name keeps the extension's letter case
ExtFolderKeepsCase(name) == UnwrapOr(ToStr(Extension(name)), NO_EXT)

\* the subfolder name of organize_by_extension
ExtFolder(name) == UnwrapOr(MapLower(ToStr(Extension(name))), NO_EXT)

\* PathBuf::join on component sequences: joining the empty string adds a
\* trailing separator and no component
Join(p, comp) == IF comp = <<>> THEN p ELSE Append(p, comp)

OrganizedRoot == Join(<<>>, ORGANIZED)

DestDir(name) == Join(OrganizedRoot, ExtFolder(name))

\* a bug: the file name is not joined to the subfolder
DestPathIsDir(name) == DestDir(name)

DestPath(name) == Join(DestDir(name), name)

\* a bug: the destination root is not skipped
NeverOrganizedName(name) == FALSE

\* the comparison that skips the destination root while planning
IsOrganizedName(name) == ToStr(Some(name)) = Some(ORGANIZED)

(***************************************************************************)
(* The filesystem below D                                                  *)
(***************************************************************************)
Node(k, c) == [kind |-> k, content |-> c]

Exists(f, p) == p \in DOMAIN f

IsDirAt(f, p) == p \in DOMAIN f /\ f[p].kind = "dir"

\* fs::read_dir(folder): the names of the immediate children of D
ReadDir(f) == {p[1] : p \in {q \in DOMAIN f : Len(q) = 1}}

\* DirEntry::metadata: the entry's own type (a symbolic link is not followed)
Metadata(f, name) == f[<<name>>].kind

IsDirMeta(kind) == kind = "dir"

IsFileMeta(kind) == kind = "file"

Put(f, p, node) == [q \in DOMAIN f \cup {p} |-> IF q = p THEN node ELSE f[q]]

Remove(f, p) == [q \in DOMAIN f \ {p} |-> f[q]]

\* fs::create_dir_all(p) from component k on: an existing directory is kept,
\* an existing non-directory is an error, a missing component is created
\* unless the mkdir fails (failAt names the component whose mkdir fails, 0 for
\* none).  Directories created before the error stay.
RECURSIVE CreateDirAll(_, _, _, _)
CreateDirAll(f, p, k, failAt) ==
    IF k > Len(p)
    THEN [ok |-> TRUE, fs |-> f]
    ELSE LET q == SubSeq(p, 1, k)
         IN  IF Exists(f, q)
             THEN IF IsDirAt(f, q)
                  THEN CreateDirAll(f, p, k + 1, failAt)
                  ELSE [ok |-> FALSE, fs |-> f]
             ELSE IF failAt = k
                  THEN [ok |-> FALSE, fs |-> f]
                  ELSE CreateDirAll(Put(f, q, Node("dir", q)), p, k + 1, failAt)

\* dst.parent()
Parent(p) == SubSeq(p, 1, Len(p) - 1)

\* a bug: the file is copied, its source stays
RenameKeepsSource(f, src) == f

\* the file moved away from src
RenameSource(f, src) == Remove(f, src)

\* fs::rename(src, dst) of a regular file: an error (nothing changes) when the
\* call fails or dst is a directory; else src disappears and dst holds what
\* src held, replacing what dst held
Rename(f, src, dst, fails) ==
    IF fails \/ IsDirAt(f, dst)
    THEN [ok |-> FALSE, fs |-> f]
    ELSE [ok |-> TRUE, fs |-> Put(RenameSource(f, src), dst, f[src])]

(***************************************************************************)
(* scan_folder                                                             *)
(***************************************************************************)
NewReport == [total_entries |-> 0, files |-> 0, dirs |-> 0,
              by_extension |-> <<>>]

\* a bug: or_insert(1) before the += 1
CountExtFromOne(b, ext) ==
    IF ext \in DOMAIN b
    THEN [b EXCEPT ![ext] = @ + 1]
    ELSE [k \in DOMAIN b \cup {ext} |-> IF k = ext THEN 2 ELSE b[k]]

\* *by_extension.entry(ext).or_insert(0) += 1
CountExt(b, ext) ==
    IF ext \in DOMAIN b
    THEN [b EXCEPT ![ext] = @ + 1]
    ELSE [k \in DOMAIN b \cup {ext} |-> IF k = ext THEN 1 ELSE b[k]]

\* a bug: the entry is not counted
CountEntryForgotten(r) == r

\* report.total_entries += 1
CountEntry(r) == [r EXCEPT !.total_entries = @ + 1]

\* the body of the loop after the metadata was read
ScanEntry(r, name, kind) ==
    IF IsDirMeta(kind)
    THEN [r EXCEPT !.dirs = @ + 1]
    ELSE IF IsFileMeta(kind)
         THEN [r EXCEPT !.files = @ + 1,
                        !.by_extension = CountExt(@, ScanExt(name))]
         ELSE r

(***************************************************************************)
(* organize_by_extension                                                   *)
(***************************************************************************)
Move(name) == [src |-> <<name>>, dst |-> DestPath(name)]

\* moves.is_empty(): return before anything is touched
NothingToDo(mv) == mv = <<>>

\* a bug: the dry_run flag is not looked at
DryRunIgnored(dry) == FALSE

\* if dry_run { ...; return Ok(()) }
DryRunReturns(dry) == dry

\* a bug: the move loop may start while entries are still to be read
PlanCompleteEarly(td) == TRUE

\* the loop over read_dir has ended
PlanComplete(td) == td = {}

\* a bug: the error of a move is swallowed and the loop goes on
AfterMoveGoesOn(ok) == "exec"

\* `?` on an io::Result inside the move loop: where control goes
AfterMove(ok) == IF ok THEN "exec" ELSE "done"

(***************************************************************************)
(* State                                                                   *)
(***************************************************************************)
VARIABLES
    fs,      \* the filesystem below D
    fs0,     \* the filesystem when the running command started
    pc,      \* "idle", "scan", "plan", "exec" or "done"
    cmd,     \* the command: "none", "scan", "dry" or "exec"
    todo,    \* the entries read_dir has not yielded yet
    moves,   \* organize: the plan, a sequence of [src, dst]
    idx,     \* organize: the pair the move loop is at
    failed,  \* organize: the pair whose move returned the error, 0 for none
    report,  \* scan: the Report under construction
    result,  \* what the command returned: "none" (not yet), "ok", or the
             \* call whose io::Error it returned (IoErrors)
    prev     \* the command before this one and whether it returned "ok" or an
             \* "err", when that was an organize without --dry-run whose
             \* planning loop ended without an error

vars == <<fs, fs0, pc, cmd, todo, moves, idx, failed, report, result, prev>>

NoCommand == [cmd |-> "none", result |-> "none"]

\* the calls whose error `?` returns
IoErrors == {"read_dir", "entry", "metadata", "create_dir_all", "rename"}

IsErr(r) == r \in IoErrors

\* the top-level entries of an initial directory: at most MaxEntries names,
\* each a regular file, a directory or something else (a symbolic link, a
\* fifo, a socket)
TopChoices ==
    UNION {[S -> Kinds] :
             S \in {T \in SUBSET Names : Cardinality(T) <= MaxEntries}}

\* the paths below D/organized that a move of this directory's files touches
PrePaths(top) ==
    LET files == {n \in DOMAIN top : top[n] = "file" /\ ~IsOrganizedName(n)}
    IN  {DestPath(n) : n \in files}
          \cup {DestDir(n) : n \in {m \in files : DestDir(m) # OrganizedRoot}}

\* what D/organized holds initially: at most MaxPre of those paths, each a file
\* or a directory, and only below a directory
PreChoices(top) ==
    IF ORGANIZED \in DOMAIN top /\ top[ORGANIZED] = "dir"
    THEN LET sets == {S \in SUBSET PrePaths(top) : Cardinality(S) <= MaxPre}
             all == UNION {[S -> {"file", "dir"}] : S \in sets}
         IN  {pre \in all :
                \A p \in DOMAIN pre :
                    Parent(p) \in DOMAIN pre => pre[Parent(p)] = "dir"}
    ELSE {<<>>}

InitFs(top, pre) ==
    LET tops == {<<n>> : n \in DOMAIN top}
        pars == {Parent(p) : p \in {q \in DOMAIN pre : Len(q) = 3}}
    IN  [p \in tops \cup DOMAIN pre \cup pars |->
            IF p \in tops THEN Node(top[p[1]], p)
            ELSE IF p \in DOMAIN pre THEN Node(pre[p], p)
            ELSE Node("dir", p)]

Init ==
    /\ \E top \in TopChoices : \E pre \in PreChoices(top) :
          fs = InitFs(top, pre)
    /\ fs0 = fs
    /\ pc = "idle"
    /\ cmd = "none"
    /\ todo = {}
    /\ moves = <<>>
    /\ idx = 0
    /\ failed = 0
    /\ report = NewReport
    /\ result = "none"
    /\ prev = NoCommand

(***************************************************************************)
(* scan <folder>                                                           *)
(***************************************************************************)
\* scan_folder is called; read_dir returns the iterator or the error
StartScan ==
    /\ pc = "idle"
    /\ cmd' = "scan"
    /\ fs0' = fs
    /\ report' = NewReport
    /\ \E ok \in BOOLEAN :
          IF ok
          THEN pc' = "scan" /\ todo' = ReadDir(fs) /\ result' = "none"
          ELSE pc' = "done" /\ todo' = {} /\ result' = "read_dir"
    /\ UNCHANGED <<fs, moves, idx, failed, prev>>

\* one iteration of the loop: the entry (before it is counted) or its
\* metadata (after) may be an error, and `?` returns it
ScanStep ==
    /\ pc = "scan"
    /\ \E name \in todo : \E io \in {"ok", "entry_err", "meta_err"} :
          CASE io \in {"entry_err", "meta_err"} ->
                 \* `?` returns the error; the report and the iterator are dropped
                 /\ report' = NewReport
                 /\ pc' = "done" /\ todo' = {}
                 /\ result' = IF io = "entry_err" THEN "entry" ELSE "metadata"
            [] OTHER ->
                 /\ report' = ScanEntry(CountEntry(report), name,
                                        Metadata(fs, name))
                 /\ pc' = "scan" /\ result' = result /\ todo' = todo \ {name}
    /\ UNCHANGED <<fs, fs0, cmd, moves, idx, failed, prev>>

\* Ok(report)
ScanReturn ==
    /\ pc = "scan"
    /\ todo = {}
    /\ pc' = "done"
    /\ result' = "ok"
    /\ UNCHANGED <<fs, fs0, cmd, todo, moves, idx, failed, report, prev>>

(***************************************************************************)
(* organize <folder> [--dry-run]                                           *)
(***************************************************************************)
\* organize_by_extension is called; read_dir returns the iterator or the error
StartOrganize ==
    /\ pc = "idle"
    /\ \E dry \in BOOLEAN : cmd' = IF dry THEN "dry" ELSE "exec"
    /\ fs0' = fs
    /\ moves' = <<>>
    /\ \E ok \in BOOLEAN :
          IF ok
          THEN pc' = "plan" /\ todo' = ReadDir(fs) /\ result' = "none"
          ELSE pc' = "done" /\ todo' = {} /\ result' = "read_dir"
    /\ UNCHANGED <<fs, idx, failed, report, prev>>

\* one iteration of the planning loop; the entry or its metadata may be an
\* error, and `?` returns it, dropping the plan
PlanStep ==
    /\ pc = "plan"
    /\ \E name \in todo : \E io \in {"ok", "entry_err", "meta_err"} :
          IF io = "entry_err"
          THEN pc' = "done" /\ result' = "entry" /\ todo' = {} /\ moves' = <<>>
          ELSE IF IsOrganizedName(name)
          THEN /\ io = "ok"
               /\ todo' = todo \ {name}
               /\ UNCHANGED <<pc, result, moves>>
          ELSE IF io = "meta_err"
          THEN pc' = "done" /\ result' = "metadata" /\ todo' = {} /\ moves' = <<>>
          ELSE /\ todo' = todo \ {name}
               /\ moves' = IF IsFileMeta(Metadata(fs, name))
                           THEN Append(moves, Move(name))
                           ELSE moves
               /\ UNCHANGED <<pc, result>>
    /\ UNCHANGED <<fs, fs0, cmd, idx, failed, report, prev>>

\* after the planning loop: nothing to do, the dry run's listing, or on to
\* the move loop
PlanDone ==
    /\ pc = "plan"
    /\ PlanComplete(todo)
    /\ IF NothingToDo(moves) \/ DryRunReturns(cmd = "dry")
       THEN pc' = "done" /\ result' = "ok" /\ idx' = idx
       ELSE pc' = "exec" /\ result' = result /\ idx' = 1
    /\ UNCHANGED <<fs, fs0, cmd, todo, moves, failed, report, prev>>

\* one iteration of the move loop: create_dir_all(parent)?, rename(src, dst)?
ExecStep ==
    /\ pc = "exec"
    /\ idx <= Len(moves)
    /\ \E failAt \in 0..2 : \E renameFails \in BOOLEAN :
          LET m == moves[idx]
              mk == CreateDirAll(fs, Parent(m.dst), 1, failAt)
              rn == Rename(mk.fs, m.src, m.dst, renameFails)
              ok == mk.ok /\ rn.ok
          IN  /\ fs' = IF mk.ok THEN rn.fs ELSE mk.fs
              /\ pc' = AfterMove(ok)
              /\ failed' = IF ok THEN failed ELSE idx
              /\ result' = IF ok THEN result
                            ELSE IF mk.ok THEN "rename" ELSE "create_dir_all"
    /\ idx' = idx + 1
    /\ UNCHANGED <<fs0, cmd, todo, moves, report, prev>>

\* the move loop ended: Ok(())
ExecDone ==
    /\ pc = "exec"
    /\ idx > Len(moves)
    /\ pc' = "done"
    /\ result' = "ok"
    /\ UNCHANGED <<fs, fs0, cmd, todo, moves, idx, failed, report, prev>>

\* main returns; the next invocation starts from the filesystem as it is
Exit ==
    /\ pc = "done"
    /\ pc' = "idle"
    /\ prev' = IF cmd = "exec" /\ result \in {"ok", "create_dir_all", "rename"}
                THEN [cmd |-> cmd, result |-> IF IsErr(result) THEN "err" ELSE "ok"]
                ELSE NoCommand
    /\ cmd' = "none"
    /\ fs0' = fs
    /\ todo' = {}
    /\ moves' = <<>>
    /\ idx' = 0
    /\ failed' = 0
    /\ report' = NewReport
    /\ result' = "none"
    /\ UNCHANGED fs

Next ==
    \/ StartScan
    \/ ScanStep
    \/ ScanReturn
    \/ StartOrganize
    \/ PlanStep
    \/ PlanDone
    \/ ExecStep
    \/ ExecDone
    \/ Exit

Spec == Init /\ [][Next]_vars

(***************************************************************************)
(* Properties                                                              *)
(***************************************************************************)
Organizing == cmd \in {"dry", "exec"}

\* the planning loop of the running organize ended without an error
PlanIsComplete ==
    /\ Organizing
    /\ \/ pc = "exec"
       \/ pc = "done" /\ (result = "ok" \/ failed # 0)

\* the names of the regular files at the top level of f, `organized` aside
EligibleFiles(f) ==
    {n \in ReadDir(f) : f[<<n>>].kind = "file" /\ n # ORGANIZED}

Sources == {moves[i].src : i \in 1..Len(moves)}

\* C1: organize with --dry-run leaves the directory tree as it was when the
\* command started, whether the plan is empty or not.
DryRunNoMutation == cmd = "dry" => fs = fs0

\* a dry run with a non-empty plan has returned Ok
DryRunNoMutationWitness ==
    cmd = "dry" /\ pc = "done" /\ result = "ok" /\ Len(moves) >= 2

PrevExecOk == prev = [cmd |-> "exec", result |-> "ok"]

\* C2 (as amended): when an organize run (no --dry-run) returned Ok, the
\* next organize run on the unchanged directory plans nothing: no regular
\* file but `organized` is left at the top level.
SecondRunPlanEmpty ==
    (PrevExecOk /\ cmd = "exec") =>
        /\ moves = <<>>
        /\ pc # "exec"
        /\ EligibleFiles(fs) = {}

\* the second run returned Ok after a first run that moved files
SecondRunPlanEmptyWitness ==
    /\ PrevExecOk /\ cmd = "exec" /\ pc = "done" /\ result = "ok"
    /\ \E p \in DOMAIN fs : Len(p) = 3 /\ Len(fs[p].content) = 1

\* C2 as stated: the plan of an organize run that follows an organize run
\* (no --dry-run) on the same directory is empty.  Stated for first runs that
\* got as far as the move loop, whatever they returned.
SecondRunPlanEmptyAlways ==
    (prev.cmd = "exec" /\ cmd = "exec") => moves = <<>>

\* C3: no pair of a plan has the entry `organized` as its source, and no step
\* of any command removes, moves or replaces an existing entry `organized`.
OrganizedNeverPlanned ==
    [][/\ \A i \in 1..Len(moves') : moves'[i].src # OrganizedRoot
       /\ Exists(fs, OrganizedRoot) =>
            /\ Exists(fs', OrganizedRoot)
            /\ fs'[OrganizedRoot] = fs[OrganizedRoot]]_vars

\* a regular file named `organized` was enumerated beside files that were
\* planned
OrganizedNeverPlannedWitness ==
    /\ Exists(fs0, OrganizedRoot) /\ fs0[OrganizedRoot].kind = "file"
    /\ PlanIsComplete /\ moves # <<>>

\* C4: when the move of pair k returns an error, organize returns it at once;
\* the pairs before k are moved (source gone, destination holding what the
\* source held), the source of pair k is still in place, and the pairs after k
\* are untouched at both ends.
AbortKeepsPartial ==
    failed # 0 =>
        /\ pc = "done" /\ IsErr(result) /\ failed \in 1..Len(moves)
        /\ \A i \in 1..(failed - 1) :
              /\ ~Exists(fs, moves[i].src)
              /\ Exists(fs, moves[i].dst)
              /\ fs[moves[i].dst] = fs0[moves[i].src]
        /\ \A i \in failed..Len(moves) :
              /\ Exists(fs, moves[i].src)
              /\ fs[moves[i].src] = fs0[moves[i].src]
        /\ \A i \in (failed + 1)..Len(moves) :
              /\ Exists(fs, moves[i].dst) <=> Exists(fs0, moves[i].dst)
              /\ Exists(fs, moves[i].dst) => fs[moves[i].dst] = fs0[moves[i].dst]

\* the second of three moves returned an error
AbortKeepsPartialWitness == failed = 2 /\ Len(moves) = 3 /\ pc = "done"

\* the text of `name` after its last dot, when a dot follows its first
\* character
HasExtension(name) == \E i \in 2..Len(name) : name[i] = "."

Suffix(name) ==
    CHOOSE t \in {SubSeq(name, i + 1, Len(name)) : i \in 1..Len(name)} :
        /\ \A j \in 1..Len(t) : t[j] # "."
        /\ name[Len(name) - Len(t)] = "."

\* D/organized/<ext>/<name> as a path; an empty <ext> leaves
\* D/organized//<name>, which is D/organized/<name>
UnderOrganized(ext, name) ==
    <<ORGANIZED>> \o (IF ext = <<>> THEN <<>> ELSE <<ext>>) \o <<name>>

ExpectedDest(name) ==
    UnderOrganized(IF HasExtension(name) THEN ToLowercase(Suffix(name))
                   ELSE NO_EXT, name)

\* C5: a complete plan holds exactly one pair for each top-level regular file
\* not named `organized`, none for anything else, and each pair's destination
\* is D/organized/<ext>/<name>, <ext> the lower-cased extension or no_ext.
PlanIsExact ==
    PlanIsComplete =>
        /\ Sources = {<<n>> : n \in EligibleFiles(fs0)}
        /\ Len(moves) = Cardinality(EligibleFiles(fs0))
        /\ \A i \in 1..Len(moves) :
              /\ Len(moves[i].src) = 1
              /\ moves[i].dst = ExpectedDest(moves[i].src[1])

\* a.t and b.T are planned into organized/t beside a directory that is not
PlanIsExactWitness ==
    /\ PlanIsComplete
    /\ \E i, j \in 1..Len(moves) :
          /\ moves[i] = [src |-> << <<"a", ".", "t">> >>,
                         dst |-> <<ORGANIZED, <<"t">>, <<"a", ".", "t">> >>]
          /\ moves[j] = [src |-> << <<"b", ".", "T">> >>,
                         dst |-> <<ORGANIZED, <<"t">>, <<"b", ".", "T">> >>]
    /\ \E n \in ReadDir(fs0) : fs0[<<n>>].kind = "dir" /\ <<n>> \notin Sources

ScanReturned == cmd = "scan" /\ pc = "done" /\ result = "ok"

EntriesOfKind(f, k) == {n \in ReadDir(f) : f[<<n>>].kind = k}

OnlyFilesAndDirs(f) == \A n \in ReadDir(f) : f[<<n>>].kind \in {"file", "dir"}

\* C6 (as amended): for a directory whose entries are all regular files or
\* directories, the report scan returns has files + dirs = total_entries, the
\* number of entries.
CountsAddUp ==
    (ScanReturned /\ OnlyFilesAndDirs(fs)) =>
        /\ report.files + report.dirs = report.total_entries
        /\ report.total_entries = Cardinality(ReadDir(fs))

\* scan returned the report of a directory of files and directories
CountsAddUpWitness ==
    /\ ScanReturned /\ OnlyFilesAndDirs(fs)
    /\ report.files >= 1 /\ report.dirs >= 1 /\ report.total_entries = 3

\* C6 as stated: for every directory, the report scan returns has
\* files + dirs = total_entries.
CountsAddUpAlways ==
    ScanReturned => report.files + report.dirs = report.total_entries

RECURSIVE SumValues(_)
SumValues(b) ==
    IF DOMAIN b = {} THEN 0
    ELSE LET k == CHOOSE x \in DOMAIN b : TRUE
         IN  b[k] + SumValues([x \in DOMAIN b \ {k} |-> b[x]])

\* C7: in the report scan returns, the values of by_extension add up to files,
\* the number of regular files of the directory; directories (and entries that
\* are neither) add nothing.
ExtensionsAddUp ==
    ScanReturned =>
        /\ SumValues(report.by_extension) = report.files
        /\ report.files = Cardinality(EntriesOfKind(fs, "file"))

\* scan returned the report of a directory with files and a directory
ExtensionsAddUpWitness ==
    /\ ScanReturned
    /\ Cardinality(EntriesOfKind(fs, "file")) >= 2
    /\ EntriesOfKind(fs, "dir") # {}

EqualIgnoringCase(x, y) ==
    /\ Len(x) = Len(y)
    /\ \A i \in 1..Len(x) : LowerChar(x[i]) = LowerChar(y[i])

\* two names are counted together: neither has an extension, or both have
\* and the extensions differ in letter case at most
SameExtension(n, m) ==
    IF HasExtension(n)
    THEN HasExtension(m) /\ EqualIgnoringCase(Suffix(n), Suffix(m))
    ELSE ~HasExtension(m)

ExpectedKey(n) ==
    IF HasExtension(n) THEN ToLowercase(Suffix(n)) ELSE SCAN_NO_EXT

\* C8: in the report scan returns, every regular file is counted under the
\* lower-cased text of its extension, or under (no_ext) when it has none, and
\* that key's count is the number of files whose extension differs from its
\* own in letter case at most.
KeysFoldCase ==
    ScanReturned =>
        LET files == EntriesOfKind(fs, "file")
        IN  /\ DOMAIN report.by_extension = {ExpectedKey(n) : n \in files}
            /\ \A n \in files :
                  report.by_extension[ExpectedKey(n)] =
                      Cardinality({m \in files : SameExtension(n, m)})

\* a.t and b.T are counted under t, and c under (no_ext)
KeysFoldCaseWitness ==
    /\ ScanReturned
    /\ EntriesOfKind(fs, "file") = {<<"a", ".", "t">>, <<"b", ".", "T">>, <<"c">>}
    /\ DOMAIN report.by_extension = {<<"t">>, SCAN_NO_EXT}
    /\ report.by_extension[<<"t">>] = 2
    /\ report.by_extension[SCAN_NO_EXT] = 1

\* C9: organize changes nothing before its planning loop has read every
\* entry (every eligible file is then in the plan), and an error of read_dir,
\* of an entry or of its metadata is returned with the tree as it was.
PlanBeforeMutation ==
    /\ fs # fs0 =>
          /\ cmd = "exec" /\ pc \in {"exec", "done"} /\ todo = {}
          /\ \A n \in EligibleFiles(fs0) : <<n>> \in Sources
    /\ (Organizing /\ result \in {"read_dir", "entry", "metadata"}) =>
          fs = fs0 /\ pc = "done"

\* reading the metadata of an entry failed in a directory with files to move
PlanBeforeMutationWitness ==
    /\ cmd = "exec" /\ pc = "done" /\ result = "metadata"
    /\ Cardinality(EligibleFiles(fs)) >= 2

\* C10: the destinations of a plan are pairwise distinct, and what a step
\* replaces is an entry below D/organized that was there, as it is, when the
\* command started: no move overwrites what a move of the same run put there.
NoOverwriteWithinRun ==
    [][/\ \A i, j \in 1..Len(moves') :
             moves'[i].dst = moves'[j].dst => i = j
       /\ \A p \in DOMAIN fs \cap DOMAIN fs' :
             fs'[p] # fs[p] =>
                /\ p \in DOMAIN fs0 /\ fs0[p] = fs[p]
                /\ Len(p) >= 2 /\ p[1] = ORGANIZED]_vars

\* a move of a plan of two has replaced a file that was below D/organized
NoOverwriteWithinRunWitness ==
    /\ cmd = "exec" /\ Len(moves) >= 2
    /\ \E i \in 1..Len(moves) :
          /\ Exists(fs0, moves[i].dst)
          /\ Exists(fs, moves[i].dst)
          /\ fs[moves[i].dst] = fs0[moves[i].src]

====
